---------------------------- MODULE Spec2Model ----------------------------
(***************************************************************************)
(* Model of so2html.py: rendering of text plus standoff annotations        *)
(* (start, end, type) into non-crossing HTML markup.                       *)
(*                                                                         *)
(* Strings are sequences of one-character strings, so that the label       *)
(* normaliser and the text slices are computed character by character.     *)
(* Objects (spans, markers) are records held in sequences and referred to  *)
(* by their index, which plays the role of the Python object reference.    *)
(***************************************************************************)
EXTENDS Integers, Sequences, FiniteSets, TLC

VARIABLES
    json,        \* main(): the decoded SOJSON argument, a sequence of entries
    text,        \* the text argument
    standoffs,   \* the standoffs argument of _standoff_to_html
    legend,      \* the legend argument
    pc,          \* position in the call: "json", "prepare", "sweep", "done", "error"
    err,         \* the exception that ended the call ("" when none)
    spans,       \* _standoff_to_html: spans (Span objects, by index)
    nested,      \* Span.nested of every span, after resolve_heights
    max_height,  \* the value resolve_heights returned
    mk,          \* every Marker object created so far (by index)
    markers,     \* _standoff_to_html: markers (indices into mk), sorted
    start_marker,\* Span.start_marker of every span (index into mk, 0 for None)
    i,           \* _standoff_to_html: i (1-based here)
    o,           \* _standoff_to_html: o
    out,         \* _standoff_to_html: out (text runs and marker indices)
    open_span,   \* _standoff_to_html: open_span
    legend_html, \* _standoff_to_html: legend_html
    css,         \* the CSS returned
    body,        \* the body returned: out with every marker rendered
    rng,         \* the state of the module-level generator of random
    sc_types,    \* span_colors: types, the argument of the latest call
    sc_colors,   \* span_colors: colors, the list the latest call returned
    results,     \* every span_colors call so far, as << types, colors >>
    label,       \* css_class_string: the argument
    cls          \* css_class_string: what the call returned or raised

vars == << json, text, standoffs, legend, pc, err, spans, nested, max_height,
           mk, markers, start_marker, i, o, out, open_span, legend_html,
           css, body, rng, sc_types, sc_colors, results, label, cls >>

\* the state of a render call
render_vars == << json, text, standoffs, legend, err, spans, nested, max_height,
                 mk, markers, start_marker, i, o, out, open_span, legend_html,
                 css, body >>

\* the state of the span_colors calls
color_vars == << sc_types, sc_colors, results >>

\* the state of a css_class_string call
label_vars == << label, cls >>

-----------------------------------------------------------------------------
(* Bounds of the model *)

\* most standoffs in one render call
MaxSpans == 2
\* largest offset of a standoff
MaxOff == 3
\* most entries of the SOJSON array
MaxEntries == 2
\* largest offset in an SOJSON entry
MaxJsonOff == 1
\* most labels in one span_colors call
MaxTypes == 21
\* most span_colors calls in a row
MaxCalls == 3
\* longest label given to css_class_string
MaxLabelLen == 5

-----------------------------------------------------------------------------
(* Small helpers *)

Max(S) == CHOOSE x \in S : \A y \in S : y <= x

Min(S) == CHOOSE x \in S : \A y \in S : x <= y

Range(s) == { s[k] : k \in 1..Len(s) }

\* every sequence over S of length at most n
RECURSIVE SeqsUpTo(_, _)
SeqsUpTo(S, n) ==
    IF n = 0 THEN { << >> }
    ELSE LET shorter == SeqsUpTo(S, n - 1)
         IN  shorter \cup { Append(s, x) : s \in { t \in shorter : Len(t) = n - 1 }, x \in S }

\* every ordering of the finite set S, as a sequence
RECURSIVE Orderings(_)
Orderings(S) ==
    IF S = {} THEN { << >> }
    ELSE UNION { { << x >> \o p : p \in Orderings(S \ {x}) } : x \in S }

\* a slip in the end of the slice: the character at b is taken as well
Slice_inclusive(t, a, b) ==
    LET hi == IF b + 1 > Len(t) THEN Len(t) ELSE b + 1
    IN  IF a >= hi THEN << >> ELSE SubSeq(t, a + 1, hi)

\* Python's text[a:b] for 0 <= a and 0 <= b (0-based, end exclusive, clamped)
Slice(t, a, b) ==
    LET hi == IF b > Len(t) THEN Len(t) ELSE b
    IN  IF a >= hi THEN << >> ELSE SubSeq(t, a + 1, hi)

-----------------------------------------------------------------------------
(* Characters *)

Lower == { "a", "b", "c", "d", "e", "f", "g", "h", "i", "j", "k", "l", "m",
           "n", "o", "p", "q", "r", "s", "t", "u", "v", "w", "x", "y", "z" }

Upper == { "A", "B", "C", "D", "E", "F", "G", "H", "I", "J", "K", "L", "M",
           "N", "O", "P", "Q", "R", "S", "T", "U", "V", "W", "X", "Y", "Z" }

Digit == { "0", "1", "2", "3", "4", "5", "6", "7", "8", "9" }

\* characters for which str.isspace() holds
Space == { " ", "\t" }

\* unicodedata.normalize('NFKD', c).encode('ascii', 'ignore') on one character:
\* an ASCII character stays, "e_acute" (U+00E9) decomposes to "e" plus a
\* combining accent that is dropped, "arrow" (U+2192) has no ASCII part.
ascii_fold(c) ==
    CASE c = "e_acute" -> << "e" >>
      [] c = "arrow"   -> << >>
      [] OTHER         -> << c >>

RECURSIVE nfkd_ascii(_)
nfkd_ascii(s) ==
    IF s = << >> THEN << >> ELSE ascii_fold(Head(s)) \o nfkd_ascii(Tail(s))

\* re.sub(r'[^_a-zA-Z0-9-]', '-', c)
sub_unsafe(s) ==
    [ k \in 1..Len(s) |->
        IF s[k] \in Lower \cup Upper \cup Digit \cup { "_", "-" } THEN s[k] ELSE "-" ]

\* a slip in the pattern: '--' for '--+', so that every pair of hyphens
\* becomes one hyphen and a longer run is only halved
RECURSIVE sub_hyphen_pairs(_)
sub_hyphen_pairs(s) ==
    IF Len(s) < 2 THEN s
    ELSE IF s[1] = "-" /\ s[2] = "-" THEN << "-" >> \o sub_hyphen_pairs(Tail(Tail(s)))
         ELSE << s[1] >> \o sub_hyphen_pairs(Tail(s))

\* re.sub(r'--+', '-', c)
RECURSIVE sub_hyphens(_)
sub_hyphens(s) ==
    IF Len(s) < 2 THEN s
    ELSE IF s[1] = "-" /\ s[2] = "-" THEN sub_hyphens(Tail(s))
         ELSE << s[1] >> \o sub_hyphens(Tail(s))

RECURSIVE lstrip_hyphen(_)
lstrip_hyphen(s) ==
    IF s # << >> /\ Head(s) = "-" THEN lstrip_hyphen(Tail(s)) ELSE s

RECURSIVE rstrip_hyphen(_)
rstrip_hyphen(s) ==
    IF s # << >> /\ s[Len(s)] = "-" THEN rstrip_hyphen(SubSeq(s, 1, Len(s) - 1)) ELSE s

\* c.strip('-')
strip_hyphen(s) == rstrip_hyphen(lstrip_hyphen(s))

\* re.match(r'^-?[_a-zA-Z]+[_a-zA-Z0-9-]*', c): a prefix match
css_ident_match(s) ==
    LET k == IF s # << >> /\ s[1] = "-" THEN 2 ELSE 1
    IN  Len(s) >= k /\ s[k] \in Lower \cup Upper \cup { "_" }

\* css_class_string(s): [ok, val] on success, [ok, err] on an exception
css_class_string(s) ==
    IF s = << >> \/ \A k \in 1..Len(s) : s[k] \in Space
    THEN [ ok |-> FALSE, err |-> "ValueError" ]
    ELSE LET c1 == strip_hyphen(sub_hyphens(sub_unsafe(nfkd_ascii(s))))
             c  == IF c1 # << >> /\ c1[1] \in Digit THEN << "_" >> \o c1 ELSE c1
         IN  IF css_ident_match(c)
             THEN [ ok |-> TRUE, val |-> c ]
             ELSE [ ok |-> FALSE, err |-> "AssertionError" ]

-----------------------------------------------------------------------------
(* Module constants of so2html.py *)

TAG == "span"

\* EPSILON is 0.0001: sort heights are kept in units of EPSILON, so that a
\* full level is EPSILON_INV units and a formatting span's own height is 1.
EPSILON_INV == 10000

FORMATTING_TYPE_TAG_MAP ==
    { << << "b", "o", "l", "d" >>, "b" >>,
      << << "i", "t", "a", "l", "i", "c" >>, "i" >>,
      << << "s", "u", "p" >>, "sup" >>,
      << << "s", "u", "b" >>, "sub" >>,
      << << "s", "e", "c", "t", "i", "o", "n" >>, "section" >> }

kelly_colors ==
    << "#FFB300", "#007D34", "#FF6800", "#A6BDD7", "#C10020", "#CEA262",
       "#817066", "#803E75", "#F6768E", "#00538A", "#FF7A5C", "#53377A",
       "#FF8E00", "#B32851", "#F4C800", "#7F180D", "#93AA00", "#593315",
       "#F13A13", "#232C16" >>

type_color_map ==
    { << << "O", "r", "g", "a", "n", "i", "s", "m", "_", "s", "u", "b", "d", "i", "v", "i", "s", "i", "o", "n" >>,
         "#ddaaaa" >>,
      << << "A", "n", "a", "t", "o", "m", "i", "c", "a", "l", "_", "s", "y", "s", "t", "e", "m" >>,
         "#ee99cc" >>,
      << << "O", "r", "g", "a", "n" >>,
         "#ff95ee" >>,
      << << "M", "u", "l", "t", "i", "-", "t", "i", "s", "s", "u", "e", "_", "s", "t", "r", "u", "c", "t", "u", "r", "e" >>,
         "#e999ff" >>,
      << << "T", "i", "s", "s", "u", "e" >>,
         "#cf9fff" >>,
      << << "D", "e", "v", "e", "l", "o", "p", "i", "n", "g", "_", "a", "n", "a", "t", "o", "m", "i", "c", "a", "l", "_", "s", "t", "r", "u", "c", "t", "u", "r", "e" >>,
         "#ff9fff" >>,
      << << "C", "e", "l", "l" >>,
         "#cf9fff" >>,
      << << "C", "e", "l", "l", "u", "l", "a", "r", "_", "c", "o", "m", "p", "o", "n", "e", "n", "t" >>,
         "#bbc3ff" >>,
      << << "O", "r", "g", "a", "n", "i", "s", "m", "_", "s", "u", "b", "s", "t", "a", "n", "c", "e" >>,
         "#ffeee0" >>,
      << << "I", "m", "m", "a", "t", "e", "r", "i", "a", "l", "_", "a", "n", "a", "t", "o", "m", "i", "c", "a", "l", "_", "e", "n", "t", "i", "t", "y" >>,
         "#fff9f9" >>,
      << << "P", "a", "t", "h", "o", "l", "o", "g", "i", "c", "a", "l", "_", "f", "o", "r", "m", "a", "t", "i", "o", "n" >>,
         "#aaaaaa" >>,
      << << "C", "a", "n", "c", "e", "r" >>,
         "#999999" >> }

\* d[k] for a dict given as a set of <<key, value>> pairs, k a key of it
Lookup(d, k) == (CHOOSE p \in d : p[1] = k)[2]

Keys(d) == { p[1] : p \in d }

-----------------------------------------------------------------------------
(* Span *)

\* Span.__init__ with formatting=None: the fields set from the arguments
Span(start, end, type_) ==
    [ start |-> start, end |-> end, type |-> type_,
      formatting |-> type_ \in Keys(FORMATTING_TYPE_TAG_MAP) ]

\* Span.tag
tag(s) ==
    IF ~ s.formatting THEN TAG
    ELSE IF s.type = << "s", "e", "c", "t", "i", "o", "n" >> /\ s.end - s.start < 100
         THEN (IF s.start < 10 THEN "h2" ELSE "h3")
         ELSE Lookup(FORMATTING_TYPE_TAG_MAP, s.type)

cmp(a, b) == IF a < b THEN -1 ELSE IF a > b THEN 1 ELSE 0

leftmost_sort(a, b) ==
    LET c == cmp(a.start, b.start)
    IN  IF c # 0 THEN c ELSE cmp(b.end - b.start, a.end - a.start)

\* a slip in the comparison: the lengths compared the other way round
longest_sort_swapped(a, b) ==
    LET c == cmp(a.end - a.start, b.end - b.start)
    IN  IF c # 0 THEN c ELSE cmp(a.start, b.start)

longest_sort(a, b) ==
    LET c == cmp(b.end - b.start, a.end - a.start)
    IN  IF c # 0 THEN c ELSE cmp(a.start, b.start)

\* list.sort / sorted with a cmp function: Python's sort is stable, so an item
\* moves before exactly the items that compare greater and the earlier items
\* that compare equal. c[j][k] is cmp(xs[j], xs[k]).
StableSort(xs, c) ==
    LET n == Len(xs)
        rank(k) == 1 + Cardinality({ j \in 1..n :
                          c[j][k] < 0 \/ (c[j][k] = 0 /\ j < k) })
    IN  [ r \in 1..n |-> xs[CHOOSE k \in 1..n : rank(k) = r] ]

\* sorted(xs, leftmost_sort), xs a sequence of indices into sp
sorted_leftmost(sp, xs) ==
    StableSort(xs, [ j \in 1..Len(xs) |-> [ k \in 1..Len(xs) |->
                        leftmost_sort(sp[xs[j]], sp[xs[k]]) ] ])

\* xs.sort(longest_sort)
sorted_longest(sp, xs) ==
    StableSort(xs, [ j \in 1..Len(xs) |-> [ k \in 1..Len(xs) |->
                        longest_sort(sp[xs[j]], sp[xs[k]]) ] ])

\* a slip in the pruning: a span that ends where s starts stays open
resolve_open_touching(sp, open, s) ==
    sorted_longest(sp, Append(SelectSeq(open, LAMBDA x : sp[x].end >= sp[s].start), s))

\* the body of resolve_heights' loop for span s: the open spans it leaves
resolve_open(sp, open, s) ==
    sorted_longest(sp, Append(SelectSeq(open, LAMBDA x : sp[x].end > sp[s].start), s))

\* ... and the nested sets it leaves: every span of open_span gets the spans
\* after it in open_span
resolve_nested(nest, open) ==
    [ a \in DOMAIN nest |->
        nest[a] \cup { open[q] : q \in { q \in 1..Len(open) :
                          \E p \in 1..Len(open) : open[p] = a /\ p < q } } ]

\* resolve_heights' loop over sorted(spans, leftmost_sort): the nested sets
RECURSIVE resolve_loop(_, _, _, _)
resolve_loop(sp, order, open, nest) ==
    IF order = << >> THEN nest
    ELSE LET open2 == resolve_open(sp, open, Head(order))
         IN  resolve_loop(sp, Tail(order), open2, resolve_nested(nest, open2))

\* Span.nested of every span once resolve_heights' loop has ended
nested_of(sp) ==
    resolve_loop(sp, sorted_leftmost(sp, [ k \in 1..Len(sp) |-> k ]), << >>,
                 [ a \in 1..Len(sp) |-> {} ])

\* own_height of Span.sort_height, in units of EPSILON
own_height(s) == IF ~ s.formatting THEN EPSILON_INV ELSE 1

\* Span.sort_height, in units of EPSILON. The value is memoised on first use,
\* which is in resolve_heights' return statement, after every nested set is
\* complete. n.height() is int(n.sort_height()).
RECURSIVE sort_height(_, _, _)
sort_height(sp, nest, a) ==
    IF nest[a] = {} THEN 0
    ELSE Max({ sort_height(sp, nest, n) \div EPSILON_INV : n \in nest[a] }) * EPSILON_INV
           + own_height(sp[a])

\* Span.height
height(sp, nest, a) == sort_height(sp, nest, a) \div EPSILON_INV

\* resolve_heights' return value
resolve_heights(sp, nest) ==
    IF sp # << >> THEN Max({ height(sp, nest, a) : a \in 1..Len(sp) }) ELSE -1

-----------------------------------------------------------------------------
(* Colors, CSS and legend *)

\* uniq(s): the items of s without repetitions, in order of first appearance
uniq(s) ==
    LET first == { k \in 1..Len(s) : \A j \in 1..(k - 1) : s[j] # s[k] }
        pick[n \in 0..Len(s)] ==
            IF n = 0 THEN << >>
            ELSE IF n \in first THEN Append(pick[n - 1], s[n]) ELSE pick[n - 1]
    IN  pick[Len(s)]

\* random.seed(seed): the generator restarts the sequence of that seed
random_seed(seed) == [ seeded |-> TRUE, seed |-> seed, draws |-> 0 ]

\* random.random() in generator state st, kept symbolic: the value is
\* fixed by the seed and the number of values drawn since seeding
random_random(st, n) ==
    "rnd(" \o (IF st.seeded THEN ToString(st.seed) ELSE "os") \o ","
           \o ToString(st.draws + n) \o ")"

\* color k of n made from the generator state st: hue k/n, two values drawn
\* for saturation and value
hsv_color(st, k, n) ==
    "hsv(" \o ToString(k) \o "/" \o ToString(n) \o ","
           \o random_random(st, 2 * k) \o "," \o random_random(st, 2 * k + 1) \o ")"

\* a slip: random.seed(seed) is left out, the colors are drawn from the
\* generator as the earlier calls left it
random_colors_unseeded(n, seed) ==
    [ colors |-> [ k \in 1..n |-> hsv_color(rng, k - 1, n) ],
      rng    |-> [ rng EXCEPT !.draws = @ + 2 * n ] ]

\* random_colors(n, seed): the colors returned and the generator state left
random_colors(n, seed) ==
    [ colors |-> [ k \in 1..n |-> hsv_color(random_seed(seed), k - 1, n) ],
      rng    |-> [ random_seed(seed) EXCEPT !.draws = @ + 2 * n ] ]

\* darker_color(c), kept symbolic
darker_color(c) == "darker(" \o c \o ")"

\* a slip in the comparison: the palette is given up already when the
\* unmatched labels use all of it
span_colors_strict(types) ==
    LET preset  == Keys(type_color_map)
        missing == SelectSeq(types, LAMBDA t : t \notin preset)
        fill    == IF Len(missing) < Len(kelly_colors)
                   THEN SubSeq(kelly_colors, 1, Len(missing))
                   ELSE random_colors(Len(missing), 1).colors
        idx(k)  == Cardinality({ j \in 1..(k - 1) : types[j] \notin preset })
    IN  [ k \in 1..Len(types) |->
            IF types[k] \in preset THEN Lookup(type_color_map, types[k])
            ELSE fill[idx(k) + 1] ]

\* span_colors(types)
span_colors(types) ==
    LET preset  == Keys(type_color_map)
        missing == SelectSeq(types, LAMBDA t : t \notin preset)
        fill    == IF Len(missing) <= Len(kelly_colors)
                   THEN SubSeq(kelly_colors, 1, Len(missing))
                   ELSE random_colors(Len(missing), 1).colors
        \* the value of i when types[k] is reached
        idx(k)  == Cardinality({ j \in 1..(k - 1) : types[j] \notin preset })
    IN  [ k \in 1..Len(types) |->
            IF types[k] \in preset THEN Lookup(type_color_map, types[k])
            ELSE fill[idx(k) + 1] ]

\* the generator state a call of span_colors leaves: random_colors runs
\* only when the palette is too small
span_colors_rng(types) ==
    LET missing == SelectSeq(types, LAMBDA t : t \notin Keys(type_color_map))
    IN  IF Len(missing) <= Len(kelly_colors) THEN rng
        ELSE random_colors(Len(missing), 1).rng

\* generate_css(max_height, color_map, legend): which blocks the sheet holds.
\* color_map is dict(zip(types, colors)).
generate_css(mh, types, colors, lg) ==
    [ legend_css |-> lg,
      heights    |-> 0..mh,
      type_rules |-> { << types[k], colors[k], darker_color(colors[k]) >> :
                          k \in 1..Len(types) } ]

\* generate_legend(types, colors): one row per zip(types, colors) item, the
\* sample tag's class and the label shown
generate_legend(types, colors) ==
    LET n == IF Len(types) < Len(colors) THEN Len(types) ELSE Len(colors)
    IN  << [ part |-> "<div class=\"legend\">Legend<table>" ] >>
        \o [ k \in 1..n |->
               [ row   |-> TAG,
                 class |-> << << "ann" >>, << "ann-t", css_class_string(types[k]).val >> >>,
                 label |-> types[k] ] ]
        \o << [ part |-> "</table></div>" ] >>

\* { css_class_string(f) : f for f in full_forms }[t]: a later full form
\* replaces an earlier one with the same class
type_to_full_form(full_forms, t) ==
    full_forms[Max({ k \in 1..Len(full_forms) : css_class_string(full_forms[k]).val = t })]

\* legend_types of _standoff_to_html
legend_types_of(sos, types) ==
    LET full_forms == uniq([ k \in 1..Len(sos) |-> sos[k].type ])
    IN  [ k \in 1..Len(types) |-> type_to_full_form(full_forms, types[k]) ]

\* types of _standoff_to_html
types_of(sp) ==
    LET hl == SelectSeq(sp, LAMBDA s : ~ s.formatting)
    IN  uniq([ k \in 1..Len(hl) |-> hl[k].type ])

-----------------------------------------------------------------------------
(* Marker *)

\* Marker.__init__, given the span's sort height
\* a slip in the constructor: cont_right takes the value given for cont_left
Marker_cont_both(span, sh, offset, is_end, cont_left) ==
    [ span |-> span, offset |-> offset, is_end |-> is_end,
      cont_left |-> cont_left, cont_right |-> cont_left,
      covered_left |-> FALSE, covered_right |-> FALSE,
      sort_idx |-> sh * (IF is_end THEN 1 ELSE -1) ]

Marker(span, sh, offset, is_end, cont_left) ==
    [ span |-> span, offset |-> offset, is_end |-> is_end,
      cont_left |-> cont_left, cont_right |-> FALSE,
      covered_left |-> FALSE, covered_right |-> FALSE,
      sort_idx |-> sh * (IF is_end THEN 1 ELSE -1) ]

marker_sort(a, b) ==
    LET c == cmp(a.offset, b.offset)
    IN  IF c # 0 THEN c ELSE cmp(a.sort_idx, b.sort_idx)

\* ms.sort(marker_sort), ms a sequence of indices into store
sorted_markers(store, ms) ==
    StableSort(ms, [ j \in 1..Len(ms) |-> [ k \in 1..Len(ms) |->
                        marker_sort(store[ms[j]], store[ms[k]]) ] ])

\* Marker.__unicode__
marker_unicode(m, sp, nest) ==
    IF m.is_end THEN [ close |-> tag(sp[m.span]) ]
    ELSE IF sp[m.span].formatting THEN [ open |-> tag(sp[m.span]), class |-> << >> ]
    ELSE [ open  |-> tag(sp[m.span]),
           class |-> << << "ann" >>, << "ann-h", height(sp, nest, m.span) >>,
                        << "ann-t", sp[m.span].type >> >>
                     \o (IF m.cont_left THEN << << "ann-contleft" >> >> ELSE << >>)
                     \o (IF m.cont_right THEN << << "ann-contright" >> >> ELSE << >>)
                     \o (IF m.covered_left THEN << << "ann-openleft" >> >> ELSE << >>)
                     \o (IF m.covered_right THEN << << "ann-openright" >> >> ELSE << >>) ]

-----------------------------------------------------------------------------
(* json_to_standoffs *)

\* '%d' % n for n >= 0
RECURSIVE decimal(_)
decimal(n) ==
    LET d == << "0", "1", "2", "3", "4", "5", "6", "7", "8", "9" >>[(n % 10) + 1]
    IN  IF n < 10 THEN << d >> ELSE Append(decimal(n \div 10), d)

MyStandoff(start, end, type_) == [ start |-> start, end |-> end, type |-> type_ ]

\* a slip in the loop: an empty entry is skipped but uses up a type number
RECURSIVE json_loop_counting(_, _, _, _)
json_loop_counting(j, k, c, acc) ==
    IF k > Len(j) THEN acc
    ELSE LET s == j[k]
         IN  IF Len(s) < 1 THEN json_loop_counting(j, k + 1, c + 1, acc)
             ELSE LET s2 == IF Len(s) < 2 THEN << s[1], s[1] >> ELSE s
                  IN  IF Len(s2) < 3
                      THEN json_loop_counting(j, k + 1, c + 1,
                               Append(acc, [ start |-> s2[1], end |-> s2[2],
                                   type |-> << "t", "y", "p", "e", "-" >> \o decimal(c + 1) ]))
                      ELSE json_loop_counting(j, k + 1, c,
                               Append(acc, [ start |-> s2[1], end |-> s2[2], type |-> s2[3] ]))

\* the loop of json_to_standoffs over the entries from position k on, with
\* c the counter i of the source and acc the list standoffs
RECURSIVE json_loop(_, _, _, _)
json_loop(j, k, c, acc) ==
    IF k > Len(j) THEN acc
    ELSE LET s == j[k]
         IN  IF Len(s) < 1 THEN json_loop(j, k + 1, c, acc)
             ELSE LET s2 == IF Len(s) < 2 THEN << s[1], s[1] >> ELSE s
                  IN  IF Len(s2) < 3
                      THEN json_loop(j, k + 1, c + 1,
                               Append(acc, MyStandoff(s2[1], s2[2],
                                   << "t", "y", "p", "e", "-" >> \o decimal(c + 1))))
                      ELSE json_loop(j, k + 1, c, Append(acc, MyStandoff(s2[1], s2[2], s2[3])))

json_to_standoffs(j) == json_loop(j, 1, 0, << >>)

-----------------------------------------------------------------------------
(* Inputs *)

italic == << "i", "t", "a", "l", "i", "c" >>

bold == << "b", "o", "l", "d" >>

Alphabet == << "a", "b", "c", "d", "e", "f", "g", "h", "i", "j", "k", "l", "m",
               "n", "o", "p", "q", "r", "s", "t", "u", "v", "w", "x", "y", "z" >>

\* standoffs over the offsets 0..MaxOff with start <= end, a highlight type
\* and a formatting type, of a text of MaxOff characters
BoundedLabels == { << "A" >>, italic }

BoundedStandoffs ==
    { MyStandoff(s, e, t) : s \in 0..MaxOff, e \in 0..MaxOff, t \in BoundedLabels }

BoundedInputs ==
    { [ text |-> SubSeq(Alphabet, 1, MaxOff), standoffs |-> so, legend |-> FALSE ] :
        so \in SeqsUpTo({ x \in BoundedStandoffs : x.start <= x.end }, MaxSpans) }

\* the worked examples: text "Bob, UK" with a person and a place; crossing,
\* nested and formatting standoffs over the alphabet; an end before its start;
\* three highlights each crossing the next; two highlights split where a
\* third ends; two formatting spans and a highlight of one range split where
\* a highlight ends
BobUK == << "B", "o", "b", ",", " ", "U", "K" >>

Person == << "P", "e", "r", "s", "o", "n" >>

GPE == << "G", "P", "E" >>

Sentence == << "S", "e", "n", "t", "e", "n", "c", "e" >>

Word == << "W", "o", "r", "d" >>

ScenarioInputs ==
    { [ text |-> x[1], standoffs |-> x[2], legend |-> lg ] :
        x \in { << BobUK, << MyStandoff(0, 3, Person), MyStandoff(5, 7, GPE) >> >>,
                << Alphabet, << MyStandoff(0, 10, << "A" >>), MyStandoff(5, 15, << "B" >>) >> >>,
                << Alphabet, << MyStandoff(0, 20, Sentence), MyStandoff(0, 5, Word) >> >>,
                << Alphabet, << MyStandoff(0, 10, << "H" >>), MyStandoff(2, 5, italic) >> >>,
                << Alphabet, << MyStandoff(5, 3, << "X" >>) >> >>,
                << Alphabet, << MyStandoff(0, 3, << "A" >>), MyStandoff(1, 4, << "B" >>),
                                MyStandoff(2, 5, << "C" >>) >> >>,
                << Alphabet, << MyStandoff(0, 3, << "A" >>), MyStandoff(1, 4, << "B" >>),
                                MyStandoff(2, 4, << "C" >>) >> >>,
                << Alphabet, << MyStandoff(0, 2, << "H" >>), MyStandoff(1, 3, italic),
                                MyStandoff(1, 3, bold), MyStandoff(1, 3, << "X" >>) >> >> },
        lg \in BOOLEAN }

\* labels that need normalising, on unit-width standoffs one after the other
LegendLabels ==
    { << "A" >>, << "A", " ", "B" >>, << "A", "-", "B" >>, << "1", "a" >>, italic, << " " >>, << "-" >> }

LegendInputs ==
    { [ text |-> SubSeq(Alphabet, 1, MaxSpans),
        standoffs |-> [ k \in 1..Len(ls) |-> MyStandoff(k - 1, k, ls[k]) ],
        legend |-> lg ] :
        ls \in SeqsUpTo(LegendLabels, MaxSpans), lg \in BOOLEAN }

\* the SOJSON argument of main(): entries of zero to three fields
JsonEntries ==
    { << >> } \cup { << s >> : s \in 0..MaxJsonOff }
              \cup { << s, e >> : s \in 0..MaxJsonOff, e \in 0..MaxJsonOff }
              \cup { << s, e, << "X" >> >> : s \in 0..MaxJsonOff, e \in 0..MaxJsonOff }

JsonInputs ==
    { [ text |-> SubSeq(Alphabet, 1, MaxJsonOff + 1), json |-> j, legend |-> TRUE ] :
        j \in SeqsUpTo(JsonEntries, MaxEntries) }

\* the labels json_to_standoffs gives to entries without a type
TypeLabel(k) == << "t", "y", "p", "e", "-" >> \o decimal(k)

TypeLabels(n) == [ k \in 1..n |-> TypeLabel(k) ]

Cell == << "C", "e", "l", "l" >>

Organ == << "O", "r", "g", "a", "n" >>

\* duplicate-free label lists for span_colors: none, few, about as many as
\* the palette has colors, and lists with labels of the preset table
ColorInputs ==
    { TypeLabels(n) : n \in { 0, 1 } \cup ((Len(kelly_colors) - 1)..MaxTypes) }
      \cup { << TypeLabel(1), Cell, TypeLabel(2), Organ >>,
             << Cell >> \o TypeLabels(Len(kelly_colors)),
             TypeLabels(MaxTypes - 1) \o << Organ, TypeLabel(MaxTypes) >> }

\* labels for css_class_string: every string of at most MaxLabelLen
\* characters over a letter, a digit, a hyphen and a space, and some with
\* underscores and non-ASCII characters
LabelChars == { "a", "1", "-", " " }

LabelInputs ==
    SeqsUpTo(LabelChars, MaxLabelLen)
      \cup { << "_" >>, << "a", "_", "_", "b" >>, << "_", "-", "_" >>, << "-", "_", "1" >>,
             << "1", "_" >>, << "e_acute" >>, << "arrow" >>, << "1", "arrow", "-" >>,
             << "c", "a", "f", "e_acute" >>, << "a", "arrow", "arrow", "b" >>,
             << "\t" >>, << "A", ".", "B" >> }

NoCss == [ legend_css |-> FALSE, heights |-> {}, type_rules |-> {} ]

\* no css_class_string call has returned
NoClass == [ ok |-> FALSE, err |-> "" ]

\* the generator of the random module as the import leaves it: seeded from
\* the system, nothing drawn
ImportedRandom == [ seeded |-> FALSE, seed |-> 0, draws |-> 0 ]

\* before the call: nothing but the arguments is set
InitCall(pc0, js, tx, so, lg) ==
    /\ json = js /\ text = tx /\ standoffs = so /\ legend = lg
    /\ pc = pc0 /\ err = ""
    /\ spans = << >> /\ nested = << >> /\ max_height = -1
    /\ mk = << >> /\ markers = << >> /\ start_marker = << >>
    /\ i = 1 /\ o = 0 /\ out = << >> /\ open_span = {}
    /\ legend_html = << >> /\ css = NoCss /\ body = << >>
    /\ rng = ImportedRandom
    /\ sc_types = << >> /\ sc_colors = << >> /\ results = << >>
    /\ cls = NoClass

Init ==
    \/ /\ \E x \in BoundedInputs \cup ScenarioInputs \cup LegendInputs :
             InitCall("prepare", << >>, x.text, x.standoffs, x.legend)
       /\ label = << >>
    \/ /\ \E x \in JsonInputs :
             InitCall("json", x.json, x.text, << >>, x.legend)
       /\ label = << >>
    \* span_colors called on its own, several times in a row
    \/ /\ InitCall("span_colors", << >>, << >>, << >>, FALSE)
       /\ label = << >>
    \* css_class_string called on its own
    \/ /\ InitCall("css_class_string", << >>, << >>, << >>, FALSE)
       /\ label \in LabelInputs

-----------------------------------------------------------------------------
(* The call *)

\* main(): standoffs = json_to_standoffs(argv[2])
JsonToStandoffs ==
    /\ pc = "json"
    /\ standoffs' = json_to_standoffs(json)
    /\ pc' = "prepare"
    /\ UNCHANGED << json, text, legend, err, spans, nested, max_height, mk, markers,
                    start_marker, i, o, out, open_span, legend_html, css, body >>
    /\ UNCHANGED << rng, color_vars, label_vars >>

\* the first and second Marker of every span, in the order of creation
initial_markers(sp, nest) ==
    [ m \in 1..(2 * Len(sp)) |->
        LET a == (m + 1) \div 2
        IN  IF m % 2 = 1 THEN Marker(a, sort_height(sp, nest, a), sp[a].start, FALSE, FALSE)
            ELSE Marker(a, sort_height(sp, nest, a), sp[a].end, TRUE, FALSE) ]

\* _standoff_to_html up to the sweep: spans, types and colors, legend,
\* heights, CSS and the sorted markers. css_class_string raises on the first
\* label it rejects.
Prepare ==
    /\ pc = "prepare"
    /\ LET conv == [ k \in 1..Len(standoffs) |-> css_class_string(standoffs[k].type) ]
           bad  == { k \in 1..Len(standoffs) : ~ conv[k].ok }
       IN  IF bad # {}
           THEN /\ pc' = "error"
                /\ err' = conv[Min(bad)].err
                /\ UNCHANGED << spans, nested, max_height, mk, markers, start_marker,
                                legend_html, css, rng >>
           ELSE \E sp \in { [ k \in 1..Len(standoffs) |->
                                Span(standoffs[k].start, standoffs[k].end, conv[k].val) ] } :
                \E types \in { types_of(sp) } :
                \E colors \in { span_colors(types) } :
                \E nest \in { nested_of(sp) } :
                \E store \in { initial_markers(sp, nest) } :
                    /\ spans' = sp
                    /\ legend_html' = IF legend
                                      THEN generate_legend(legend_types_of(standoffs, types), colors)
                                      ELSE << >>
                    /\ nested' = nest
                    /\ max_height' = resolve_heights(sp, nest)
                    /\ css' = generate_css(resolve_heights(sp, nest), types, colors, legend)
                    /\ mk' = store
                    /\ start_marker' = [ a \in 1..Len(sp) |-> 2 * a - 1 ]
                    /\ markers' = sorted_markers(store, [ m \in 1..Len(store) |-> m ])
                    /\ pc' = "sweep"
                    /\ err' = ""
                    /\ rng' = span_colors_rng(types)
    /\ UNCHANGED << json, text, standoffs, legend, i, o, out, open_span, body >>
    /\ UNCHANGED << color_vars, label_vars >>

\* the offset group of the sweep that starts at markers[i]: its last position
group_last ==
    Max({ j \in i..Len(markers) :
            \A k \in i..j : mk[markers[k]].offset = mk[markers[i]].offset })

\* max_change_height of the group
max_change_height_of(group) ==
    Max({ -1 } \cup { height(spans, nested, mk[group[k]].span) : k \in 1..Len(group) })

\* a slip in the fix-up condition: the taller spans are split, not the lower
must_split_taller(off, mch) ==
    { s \in open_span : height(spans, nested, s) > mch /\ spans[s].end # off }

\* the open spans the sweep closes and re-opens at offset off
must_split(off, mch) ==
    { s \in open_span : height(spans, nested, s) < mch /\ spans[s].end # off }

\* a slip in the initial value: min_cover_height starts at -1, like
\* max_change_height, not at infinity
above_cover_from_minus_one(h, split) ==
    h > Min({ -1 } \cup { height(spans, nested, s) : s \in split })

\* h > min_cover_height, which is infinite when no span is split
above_cover(h, split) ==
    split # {} /\ h > Min({ height(spans, nested, s) : s \in split })

\* the position (from 1) of the first marker of cl whose span open_span.remove
\* does not find, 0 when there is none
first_key_error(store, cl) ==
    LET bad == { k \in 1..Len(cl) :
                   store[cl[k]].span \notin
                       (open_span \ { store[cl[j]].span : j \in 1..(k - 1) }) }
    IN  IF bad = {} THEN 0 ELSE Min(bad)

\* the markers after the fix-up loop over open_span in the order given:
\* cont_right on the start markers so far of the spans to split, then for
\* each span its new opening and closing marker
split_markers(order, off) ==
    LET base == Len(mk)
    IN  [ m \in 1..(base + 2 * Len(order)) |->
            IF m <= base
            THEN IF \E s \in Range(order) : start_marker[s] = m
                 THEN [ mk[m] EXCEPT !.cont_right = TRUE ]
                 ELSE mk[m]
            ELSE LET s == order[(m - base + 1) \div 2]
                 IN  Marker(s, sort_height(spans, nested, s), off,
                            (m - base) % 2 = 0, (m - base) % 2 = 1) ]

\* Span.start_marker after that loop: Marker.__init__ has stored the new
\* opening marker in its span
split_start_markers(order) ==
    [ s \in DOMAIN start_marker |->
        IF s \in Range(order)
        THEN Len(mk) + 2 * (CHOOSE k \in 1..Len(order) : order[k] = s) - 1
        ELSE start_marker[s] ]

\* to_open and to_close before they are sorted: the markers of the group,
\* then the new ones in the order of their creation
to_open_of(group, order) ==
    SelectSeq(group, LAMBDA m : ~ mk[m].is_end)
        \o [ k \in 1..Len(order) |-> Len(mk) + 2 * k - 1 ]

to_close_of(group, order) ==
    SelectSeq(group, LAMBDA m : mk[m].is_end)
        \o [ k \in 1..Len(order) |-> Len(mk) + 2 * k ]

\* the markers after the two marking loops: covered_left on the markers to
\* open, covered_right on the start markers of the spans to close
cover_markers(mk1, sm1, to_open, to_close, split) ==
    [ m \in DOMAIN mk1 |->
        [ mk1[m] EXCEPT
            !.covered_left = @ \/
                (/\ m \in Range(to_open)
                 /\ above_cover(height(spans, nested, mk1[m].span), split)),
            !.covered_right = @ \/
                (\E c \in Range(to_close) :
                    /\ sm1[mk1[c].span] = m
                    /\ above_cover(height(spans, nested, mk1[c].span), split)) ] ]

\* one pass of the body of the while loop, the set open_span being iterated
\* in some order
SweepStep ==
    /\ pc = "sweep"
    /\ i <= Len(markers)
    /\ LET off   == mk[markers[i]].offset
           last  == group_last
           group == SubSeq(markers, i, last)
           mch   == max_change_height_of(group)
           split == must_split(off, mch)
           out1  == IF o # off THEN Append(out, [ text |-> Slice(text, o, off) ]) ELSE out
       IN  \E order \in Orderings(split) :
           \E mk1 \in { split_markers(order, off) } :
           \E sm1 \in { split_start_markers(order) } :
           \E to_open \in { to_open_of(group, order) } :
           \E to_close \in { to_close_of(group, order) } :
           \E mk2 \in { cover_markers(mk1, sm1, to_open, to_close, split) } :
           \E opens \in { sorted_markers(mk2, to_open) } :
           \E closes \in { sorted_markers(mk2, to_close) } :
            LET ke     == first_key_error(mk2, closes)
                item(ms) == [ k \in 1..Len(ms) |-> [ marker |-> ms[k] ] ]
            IN  /\ mk' = mk2
                /\ start_marker' = sm1
                /\ o' = off
                /\ IF ke # 0
                   THEN /\ out' = out1 \o item(SubSeq(closes, 1, ke))
                        /\ open_span' = open_span \ { mk2[closes[k]].span : k \in 1..(ke - 1) }
                        /\ pc' = "error"
                        /\ err' = "KeyError"
                        /\ i' = i
                   ELSE /\ out' = out1 \o item(closes) \o item(opens)
                        /\ open_span' = (open_span \ { mk2[m].span : m \in Range(closes) })
                                            \cup { mk2[m].span : m \in Range(opens) }
                        /\ pc' = "sweep"
                        /\ err' = ""
                        /\ i' = last + 1
    /\ UNCHANGED << json, text, standoffs, legend, spans, nested, max_height, markers,
                    legend_html, css, body >>
    /\ UNCHANGED << rng, color_vars, label_vars >>

\* u''.join(unicode(o) for o in out): the characters and tags of the string
RECURSIVE join_unicode(_, _, _, _)
join_unicode(items, store, sp, nest) ==
    IF items = << >> THEN << >>
    ELSE LET x == Head(items)
             r == IF "marker" \in DOMAIN x THEN << marker_unicode(store[x.marker], sp, nest) >>
                  ELSE IF "legend" \in DOMAIN x THEN x.legend
                  ELSE [ k \in 1..Len(x.text) |-> [ ch |-> x.text[k] ] ]
         IN  r \o join_unicode(Tail(items), store, sp, nest)

\* after the while loop: the trailing text, the legend, the returned pair
Finish ==
    /\ pc = "sweep"
    /\ i > Len(markers)
    /\ LET out1 == Append(out, [ text |-> Slice(text, o, Len(text)) ])
           out2 == IF legend_html # << >> THEN << [ legend |-> legend_html ] >> \o out1 ELSE out1
       IN  /\ out' = out2
           /\ body' = join_unicode(out2, mk, spans, nested)
    /\ pc' = "done"
    /\ UNCHANGED << json, text, standoffs, legend, err, spans, nested, max_height, mk,
                    markers, start_marker, i, o, open_span, legend_html, css >>
    /\ UNCHANGED << rng, color_vars, label_vars >>

\* one call span_colors(types), the calls before it having left the
\* generator in state rng
SpanColors ==
    /\ pc = "span_colors"
    /\ Len(results) < MaxCalls
    /\ \E ts \in ColorInputs :
         \E cs \in { span_colors(ts) } :
            /\ sc_types' = ts
            /\ sc_colors' = cs
            /\ rng' = span_colors_rng(ts)
            /\ results' = Append(results, << ts, cs >>)
    /\ UNCHANGED << pc, render_vars, label_vars >>

\* one call css_class_string(label)
CssClassString ==
    /\ pc = "css_class_string"
    /\ cls' = css_class_string(label)
    /\ pc' = "normalised"
    /\ UNCHANGED << label, rng, render_vars, color_vars >>

Next == JsonToStandoffs \/ Prepare \/ SweepStep \/ Finish \/ SpanColors \/ CssClassString

Spec == Init /\ [][Next]_vars

-----------------------------------------------------------------------------
(* What the properties below read off a state *)

\* the call got past the preparation: spans, heights and markers exist
Resolved == pc \in { "sweep", "done" } \/ (pc = "error" /\ err = "KeyError")

Highlight(a) == ~ spans[a].formatting

\* the height of span a as stored at the creation of its markers
\* (Marker.sort_idx of its end marker is span.sort_height())
StoredHeight(a) == mk[2 * a].sort_idx \div EPSILON_INV

\* the markers of out, in order
OutMarkers ==
    LET ms == SelectSeq(out, LAMBDA x : "marker" \in DOMAIN x)
    IN  [ k \in 1..Len(ms) |-> ms[k].marker ]

\* reading the markers ms from left to right with the open fragments on a
\* stack: every close marker closes the fragment opened last, and none stays open
RECURSIVE WellNested(_, _)
WellNested(ms, stack) ==
    IF ms = << >> THEN stack = << >>
    ELSE IF mk[Head(ms)].is_end
         THEN /\ stack # << >>
              /\ stack[Len(stack)] = mk[Head(ms)].span
              /\ WellNested(Tail(ms), SubSeq(stack, 1, Len(stack) - 1))
         ELSE WellNested(Tail(ms), Append(stack, mk[Head(ms)].span))

\* the rendered fragments: one per open marker of out, ending at the first
\* close marker of its span that follows
Fragments ==
    LET ms == OutMarkers
        opens == { p \in 1..Len(ms) : ~ mk[ms[p]].is_end }
        closeOf(p) == Min({ q \in (p + 1)..Len(ms) :
                              mk[ms[q]].is_end /\ mk[ms[q]].span = mk[ms[p]].span })
    IN  { [ span |-> mk[ms[p]].span, from |-> mk[ms[p]].offset,
            to |-> mk[ms[closeOf(p)]].offset,
            cont_left |-> mk[ms[p]].cont_left, cont_right |-> mk[ms[p]].cont_right ] :
          p \in opens }

\* two offset ranges that overlap without one holding the other
Crossing(f, g) ==
    \/ f.from < g.from /\ g.from < f.to /\ f.to < g.to
    \/ g.from < f.from /\ f.from < g.to /\ g.to < f.to

WellFormedInput == \A k \in 1..Len(standoffs) : 0 <= standoffs[k].start /\ standoffs[k].start <= standoffs[k].end

-----------------------------------------------------------------------------
(* C1: whatever the standoffs with 0 <= start <= end, highlights and        *)
(* formatting alike, the emitted markers are balanced and never cross:      *)
(* every close marker closes the fragment opened last, every fragment       *)
(* opened is closed, and no two fragments' ranges cross.                    *)
C1_BalancedNonCrossing ==
    (pc = "done" /\ WellFormedInput) =>
        /\ WellNested(OutMarkers, << >>)
        /\ \A f \in Fragments : \A g \in Fragments : ~ Crossing(f, g)

\* the crossing example: (0,10,"A") and (5,15,"B")
CrossingExample ==
    standoffs = << MyStandoff(0, 10, << "A" >>), MyStandoff(5, 15, << "B" >>) >>

(* C2 as claimed: for the crossing standoffs (0,10,"A"), (5,15,"B") the      *)
(* output has four or more balanced fragments, at least one span is split   *)
(* into continuation fragments, and no fragment of A crosses one of B.      *)
C2_FourFragments ==
    (pc = "done" /\ CrossingExample) =>
        /\ WellNested(OutMarkers, << >>)
        /\ Cardinality(Fragments) >= 4
        /\ \E f \in Fragments : f.cont_left \/ f.cont_right
        /\ \A f \in Fragments : \A g \in Fragments : ~ Crossing(f, g)

(* C2 as amended: for the crossing standoffs (0,10,"A"), (5,15,"B") the      *)
(* output has exactly three balanced fragments: A whole over [0,10), and B  *)
(* split into [5,10), flagged cont_right, and [10,15), flagged cont_left;   *)
(* no fragment of A crosses a fragment of B.                                *)
C2_ThreeFragments ==
    (pc = "done" /\ CrossingExample) =>
        /\ WellNested(OutMarkers, << >>)
        /\ Fragments =
             { [ span |-> 1, from |-> 0, to |-> 10, cont_left |-> FALSE, cont_right |-> FALSE ],
               [ span |-> 2, from |-> 5, to |-> 10, cont_left |-> FALSE, cont_right |-> TRUE ],
               [ span |-> 2, from |-> 10, to |-> 15, cont_left |-> TRUE, cont_right |-> FALSE ] }
        /\ \A f \in Fragments : \A g \in Fragments : ~ Crossing(f, g)

\* the crossing example was rendered to the end
C2_Reached == pc = "done" /\ CrossingExample /\ Len(OutMarkers) = 6

(* C3: after resolve_heights a highlight span whose nested set holds only   *)
(* formatting spans has height 0: a highlight over [0,10) around an italic  *)
(* span [2,5) has height 0, not 1.                                          *)
C3_FormattingAddsNoHeight ==
    Resolved =>
        \A a \in 1..Len(spans) :
            (Highlight(a) /\ \A n \in nested[a] : spans[n].formatting)
                => StoredHeight(a) = 0

\* the malformed example (5,3,"X"), or any standoff that ends before it starts
Malformed == \E k \in 1..Len(standoffs) : standoffs[k].end < standoffs[k].start

\* the call has ended, with a result or with an exception
Ended == pc \in { "done", "error" }

(* C4: a standoff that ends before it starts, such as (5,3,"X"), is         *)
(* rejected with MalformedStandoff before any rendering takes place: the    *)
(* call ends with that error, having built no span, marker, CSS or output.  *)
C4_MalformedRejected ==
    (Malformed /\ pc # "json" /\ pc # "prepare") =>
        /\ pc = "error" /\ err = "MalformedStandoff"
        /\ spans = << >> /\ mk = << >> /\ out = << >> /\ css = NoCss

\* standoffs with acceptable labels, none ending before its start, one of
\* them of zero width
ZeroWidthInput ==
    /\ \A k \in 1..Len(standoffs) :
          /\ css_class_string(standoffs[k].type).ok
          /\ 0 <= standoffs[k].start /\ standoffs[k].start <= standoffs[k].end
    /\ \E k \in 1..Len(standoffs) : standoffs[k].start = standoffs[k].end

\* in the markers ms, the open marker of every zero-width span is directly
\* followed by its close marker
ZeroWidthAdjacent(ms) ==
    \A a \in 1..Len(spans) :
        spans[a].start = spans[a].end =>
            \E p \in 1..(Len(ms) - 1) :
                /\ mk[ms[p]].span = a /\ ~ mk[ms[p]].is_end
                /\ mk[ms[p + 1]].span = a /\ mk[ms[p + 1]].is_end

\* json_to_standoffs turns every one-field entry [s] into (s, s, type-N)
SingletonsZeroWidth ==
    LET kept == SelectSeq(json, LAMBDA e : Len(e) >= 1)
    IN  /\ Len(standoffs) = Len(kept)
        /\ \A k \in 1..Len(kept) :
              Len(kept[k]) = 1 =>
                  /\ standoffs[k].start = kept[k][1] /\ standoffs[k].end = kept[k][1]
                  /\ SubSeq(standoffs[k].type, 1, 5) = << "t", "y", "p", "e", "-" >>

(* C5: a JSON entry with only a start offset becomes a zero-width standoff  *)
(* (start, start, type-N), and rendering standoffs that include a           *)
(* zero-width span ends normally with the document, the zero-width span's   *)
(* open tag directly followed by its close tag.                             *)
C5_ZeroWidthRenders ==
    /\ (json # << >> /\ pc # "json") => SingletonsZeroWidth
    /\ (ZeroWidthInput /\ Ended) => (pc = "done" /\ ZeroWidthAdjacent(OutMarkers))

\* the SOJSON array holds an empty entry
HasEmptyEntry == \E k \in 1..Len(json) : json[k] = << >>

(* C6 as claimed: a standoff entry with fewer than one offset field (an     *)
(* empty JSON array) is an error: the call fails with MalformedStandoff for *)
(* the whole input and produces no document from the other entries.         *)
C6_EmptyEntryRejected ==
    (HasEmptyEntry /\ pc # "json") =>
        /\ pc = "error" /\ err = "MalformedStandoff"
        /\ standoffs = << >>

(* C6 as amended: an empty entry is ignored: json_to_standoffs raises       *)
(* nothing for it and returns the standoffs of the other entries, in order, *)
(* as if the empty entry were not there: start and end from the entry (end  *)
(* = start for a one-field entry), the type given or else type-N with N     *)
(* counting the entries without a type among the entries that are not empty.*)
C6_EmptyEntryIgnored ==
    (json # << >> /\ pc # "json") =>
        LET kept == SelectSeq(json, LAMBDA e : e # << >>)
            untyped(k) == Cardinality({ q \in 1..k : Len(kept[q]) < 3 })
        IN  /\ Len(standoffs) = Len(kept)
            /\ \A k \in 1..Len(kept) :
                  /\ standoffs[k].start = kept[k][1]
                  /\ standoffs[k].end = IF Len(kept[k]) >= 2 THEN kept[k][2] ELSE kept[k][1]
                  /\ standoffs[k].type =
                        IF Len(kept[k]) >= 3 THEN kept[k][3]
                        ELSE << "t", "y", "p", "e", "-" >> \o decimal(untyped(k))
            /\ ~ (pc = "error" /\ err = "MalformedStandoff")

\* an array with an empty entry before an entry without a type was converted
\* and the call went on to prepare the rendering
C6_Reached ==
    /\ pc = "prepare"
    /\ \E k \in 1..Len(json) : \E q \in (k + 1)..Len(json) :
          json[k] = << >> /\ Len(json[q]) \in { 1, 2 }
    /\ standoffs # << >>

\* every span is a highlight
HighlightOnly == \A a \in 1..Len(spans) : Highlight(a)

\* span a encloses span b
Encloses(a, b) == spans[a].start <= spans[b].start /\ spans[b].end <= spans[a].end

\* the heights follow the recurrence over the nested sets, and the value
\* resolve_heights returned is their maximum
HeightRecurrence ==
    /\ \A a \in 1..Len(spans) :
          StoredHeight(a) = IF nested[a] = {} THEN 0
                            ELSE 1 + Max({ StoredHeight(n) : n \in nested[a] })
    /\ spans # << >> => max_height = Max({ StoredHeight(a) : a \in 1..Len(spans) })

\* the nesting example: (0,20,"Sentence") and (0,5,"Word")
NestingExample ==
    standoffs = << MyStandoff(0, 20, Sentence), MyStandoff(0, 5, Word) >>

NestingExampleHeights ==
    NestingExample => (StoredHeight(1) = 1 /\ StoredHeight(2) = 0 /\ max_height = 1)

(* C7 as claimed: on highlight-only spans a span's height is 0 when its     *)
(* nested set is empty and 1 + max(height(n) for n in nested) otherwise;    *)
(* so whenever span a encloses a distinct span b, height(a) > height(b);    *)
(* and for (0,20,"Sentence"), (0,5,"Word") Word has height 0, Sentence has  *)
(* height 1 and resolve_heights returns 1.                                  *)
C7_EnclosingIsHigher ==
    (Resolved /\ HighlightOnly) =>
        /\ HeightRecurrence
        /\ \A a \in 1..Len(spans) : \A b \in 1..Len(spans) :
              (a # b /\ Encloses(a, b)) => StoredHeight(a) > StoredHeight(b)
        /\ NestingExampleHeights

(* C7 as amended: on highlight-only spans a span's height is 0 when its     *)
(* nested set is empty and 1 + max(height(n) for n in nested) otherwise;    *)
(* so whenever span a encloses a span b of another range that starts before *)
(* a ends, height(a) > height(b); and for (0,20,"Sentence"), (0,5,"Word")   *)
(* Word has height 0, Sentence has height 1 and resolve_heights returns 1.  *)
C7_StrictlyEnclosingIsHigher ==
    (Resolved /\ HighlightOnly) =>
        /\ HeightRecurrence
        /\ \A a \in 1..Len(spans) : \A b \in 1..Len(spans) :
              (/\ Encloses(a, b)
               /\ << spans[a].start, spans[a].end >> # << spans[b].start, spans[b].end >>
               /\ spans[b].start < spans[a].end) => StoredHeight(a) > StoredHeight(b)
        /\ NestingExampleHeights

\* heights were resolved for a highlight span strictly around another one
C7_Reached ==
    /\ Resolved /\ HighlightOnly
    /\ \E a \in 1..Len(spans) : \E b \in 1..Len(spans) :
          /\ Encloses(a, b)
          /\ << spans[a].start, spans[a].end >> # << spans[b].start, spans[b].end >>
          /\ spans[b].start < spans[a].end
          /\ StoredHeight(a) = 1 /\ StoredHeight(b) = 0

\* span a holds span b whole
Contains(a, b) == a # b /\ Encloses(a, b)

\* spans a and b overlap: one starts inside the other
Overlap(a, b) ==
    \/ spans[a].start <= spans[b].start /\ spans[b].start < spans[a].end
    \/ spans[b].start <= spans[a].start /\ spans[a].start < spans[b].end

DisjointHighlights ==
    /\ standoffs # << >>
    /\ \A k \in 1..Len(standoffs) :
          /\ css_class_string(standoffs[k].type).ok
          /\ css_class_string(standoffs[k].type).val \notin Keys(FORMATTING_TYPE_TAG_MAP)
          /\ 0 <= standoffs[k].start /\ standoffs[k].start < standoffs[k].end
    /\ \A k \in 1..Len(standoffs) : \A q \in 1..Len(standoffs) :
          k # q => \/ standoffs[k].end <= standoffs[q].start
                   \/ standoffs[q].end <= standoffs[k].start

\* the tags of the body, in order
BodyTags == SelectSeq(body, LAMBDA x : "open" \in DOMAIN x \/ "close" \in DOMAIN x)

\* the standoffs in the order of their starts
ByStart ==
    LET n == Len(standoffs)
        rank(k) == 1 + Cardinality({ q \in 1..n : standoffs[q].start < standoffs[k].start })
    IN  [ r \in 1..n |-> standoffs[CHOOSE k \in 1..n : rank(k) = r] ]

\* the example of the usage message: 'Bob, UK' with a person and a place
BobUKExample ==
    /\ text = BobUK /\ ~ legend
    /\ standoffs = << MyStandoff(0, 3, Person), MyStandoff(5, 7, GPE) >>

BobUKBody ==
    << [ open |-> "span", class |-> << << "ann" >>, << "ann-h", 0 >>, << "ann-t", Person >> >> ],
       [ ch |-> "B" ], [ ch |-> "o" ], [ ch |-> "b" ], [ close |-> "span" ],
       [ ch |-> "," ], [ ch |-> " " ],
       [ open |-> "span", class |-> << << "ann" >>, << "ann-h", 0 >>, << "ann-t", GPE >> >> ],
       [ ch |-> "U" ], [ ch |-> "K" ], [ close |-> "span" ] >>

(* C9: for highlights of positive width that are pairwise disjoint (as in   *)
(* "Bob, UK" with (0,3,"Person"), (5,7,"GPE"), legend off) the body holds   *)
(* exactly one open/close tag pair per standoff, none inside another, each  *)
(* with class ann-h0 and the class of its own type and no continuation or   *)
(* coverage flag, and no synthetic marker is created.                       *)
C9_DisjointHighlights ==
    (pc = "done" /\ DisjointHighlights) =>
        /\ Len(mk) = 2 * Len(standoffs)
        /\ Len(BodyTags) = 2 * Len(standoffs)
        /\ \A k \in 1..Len(standoffs) :
              /\ BodyTags[2 * k - 1] =
                    [ open  |-> "span",
                      class |-> << << "ann" >>, << "ann-h", 0 >>,
                                   << "ann-t", css_class_string(ByStart[k].type).val >> >> ]
              /\ BodyTags[2 * k] = [ close |-> "span" ]
        /\ BobUKExample => body = BobUKBody

\* two touching highlights were rendered to the end
C9_Reached ==
    /\ pc = "done" /\ DisjointHighlights
    /\ \E k \in 1..Len(standoffs) : \E q \in 1..Len(standoffs) :
          standoffs[k].end = standoffs[q].start

\* the labels the legend shows, in order
LegendLabelsShown ==
    LET rows == SelectSeq(legend_html, LAMBDA x : "label" \in DOMAIN x)
    IN  [ k \in 1..Len(rows) |-> rows[k].label ]

\* the original labels of the standoffs rendered as highlights, without
\* repetitions, in order of first appearance
HighlightLabels ==
    uniq(LET hl == SelectSeq(standoffs, LAMBDA x :
                      css_class_string(x.type).val \notin Keys(FORMATTING_TYPE_TAG_MAP))
         IN  [ k \in 1..Len(hl) |-> hl[k].type ])

(* C10: a requested legend has exactly one entry for each distinct original *)
(* label of the highlighted standoffs, each once and none missing, also     *)
(* when two labels normalise to the same class; the sample tag of an entry  *)
(* uses the normalised class of its label.                                  *)
C10_LegendListsEveryLabel ==
    (Resolved /\ legend) =>
        /\ Len(LegendLabelsShown) = Len(HighlightLabels)
        /\ Range(LegendLabelsShown) = Range(HighlightLabels)
        /\ \A k \in 1..Len(legend_html) :
              "label" \in DOMAIN legend_html[k] =>
                  legend_html[k].class =
                      << << "ann" >>, << "ann-t", css_class_string(legend_html[k].label).val >> >>

-----------------------------------------------------------------------------
(* Colors *)

\* the label at position k of ts is not in the preset table
Unmatched(ts, k) == ts[k] \notin Keys(type_color_map)

\* how many unmatched labels ts has
UnmatchedCount(ts) == Cardinality({ k \in 1..Len(ts) : Unmatched(ts, k) })

\* how many unmatched labels come before position k of ts
UnmatchedBefore(ts, k) == Cardinality({ j \in 1..(k - 1) : Unmatched(ts, j) })

\* one color per label, and the preset color for a label of the preset table
PresetFirst(ts, cs) ==
    /\ Len(cs) = Len(ts)
    /\ \A k \in 1..Len(ts) :
          ~ Unmatched(ts, k) => cs[k] = Lookup(type_color_map, ts[k])

(* C11 as first stated: a label of the preset table gets its preset color; *)
(* the k-th unmatched label gets palette entry k whenever k is below the    *)
(* palette size, however many unmatched labels there are, and only the      *)
(* unmatched labels beyond the palette size get generated colors; one color *)
(* per label in input order.                                                *)
C11_PaletteForAnyNumber ==
    \A r \in Range(results) :
        /\ PresetFirst(r[1], r[2])
        /\ \A k \in 1..Len(r[1]) :
              Unmatched(r[1], k) =>
                  IF UnmatchedBefore(r[1], k) < Len(kelly_colors)
                  THEN r[2][k] = kelly_colors[UnmatchedBefore(r[1], k) + 1]
                  ELSE r[2][k] \notin Range(kelly_colors)

(* C11, amended: a label of the preset table gets its preset color; when    *)
(* the unmatched labels are no more than the palette has entries, the k-th  *)
(* unmatched label gets palette entry k; when they are more, every          *)
(* unmatched label gets a generated color, the k-th of as many colors as    *)
(* there are unmatched labels, generated from seed 1, and none gets a       *)
(* palette entry; one color per label in input order.                       *)
C11_PaletteWhenItSuffices ==
    \A r \in Range(results) :
        /\ PresetFirst(r[1], r[2])
        /\ \A k \in 1..Len(r[1]) :
              Unmatched(r[1], k) =>
                  IF UnmatchedCount(r[1]) <= Len(kelly_colors)
                  THEN r[2][k] = kelly_colors[UnmatchedBefore(r[1], k) + 1]
                  ELSE /\ r[2][k] = hsv_color(random_seed(1), UnmatchedBefore(r[1], k),
                                              UnmatchedCount(r[1]))
                       /\ r[2][k] \notin Range(kelly_colors)

\* span_colors has returned for more unmatched labels than the palette has
\* entries, with a label of the preset table among them, and for exactly as
\* many as the palette has
C11_Reached ==
    /\ \E r \in Range(results) :
          /\ UnmatchedCount(r[1]) > Len(kelly_colors)
          /\ \E k \in 1..Len(r[1]) : ~ Unmatched(r[1], k)
    /\ \E r \in Range(results) : UnmatchedCount(r[1]) = Len(kelly_colors)

(* C12: two calls of span_colors with the same label sequence return the    *)
(* same color list, whatever calls with other label sequences come before   *)
(* or between them, also when the colors are generated from the seeded      *)
(* random sequence.                                                         *)
C12_SameLabelsSameColors ==
    \A a \in 1..Len(results) : \A b \in 1..Len(results) :
        results[a][1] = results[b][1] => results[a][2] = results[b][2]

\* two calls with the same labels, colors generated, and between them a call
\* with other labels that draws from the generator as well
C12_Reached ==
    /\ Len(results) >= 3
    /\ results[1][1] = results[3][1]
    /\ results[1][1] # results[2][1]
    /\ UnmatchedCount(results[1][1]) > Len(kelly_colors)
    /\ UnmatchedCount(results[2][1]) > Len(kelly_colors)

-----------------------------------------------------------------------------
(* Label normalisation *)

(* C13: for every label on which css_class_string succeeds,                 *)
(* css_class_string of the resulting class succeeds too and returns that    *)
(* class unchanged; this covers labels with a leading digit, leading and    *)
(* trailing hyphens, runs of characters outside [_a-zA-Z0-9-] and           *)
(* underscores.                                                             *)
C13_NormalisationIdempotent ==
    (pc = "normalised" /\ cls.ok) => css_class_string(cls.val) = cls

\* a label with a hyphen in front, then a digit, and a run of three
\* characters that become hyphens was normalised to something else
C13_Reached ==
    /\ pc = "normalised" /\ cls.ok /\ cls.val # label
    /\ Len(label) >= 5
    /\ label[1] = "-" /\ label[2] \in Digit
    /\ \E k \in 1..(Len(label) - 2) :
          \A j \in k..(k + 2) : label[j] \in { "-", " " }
    /\ Head(cls.val) = "_"

-----------------------------------------------------------------------------
(* The sweep *)

\* the offsets whose marker group the sweep has gone through
ProcessedOffsets == { mk[markers[k]].offset : k \in 1..(i - 1) }

\* the markers the sweep created, those made before it being the first
\* 2 * Len(spans)
Synthetic == (2 * Len(spans) + 1)..Len(mk)

SyntheticAt(off, is_end) ==
    { m \in Synthetic : mk[m].offset = off /\ mk[m].is_end = is_end }

\* the greatest height among the spans that start or end at off
MaxChangeAt(off) ==
    Max({ -1 } \cup { height(spans, nested, s) :
                        s \in { a \in 1..Len(spans) :
                                  spans[a].start = off \/ spans[a].end = off } })

\* the spans open when the sweep reaches off, lower than the greatest
\* height that changes there and with their end elsewhere
ExpectedSplit(off) ==
    { s \in 1..Len(spans) :
        /\ spans[s].start < off /\ off <= spans[s].end
        /\ height(spans, nested, s) < MaxChangeAt(off)
        /\ spans[s].end # off }

\* at off exactly the expected spans got one close and one open marker, all
\* of them in the stream
SplitExactly(off) ==
    /\ \A e \in BOOLEAN :
          /\ { mk[m].span : m \in SyntheticAt(off, e) } = ExpectedSplit(off)
          /\ Cardinality(SyntheticAt(off, e)) = Cardinality(ExpectedSplit(off))
          /\ SyntheticAt(off, e) \subseteq Range(OutMarkers)
    /\ \A m \in SyntheticAt(off, FALSE) : mk[m].cont_left

\* the open markers of span s in the stream, one per fragment
FragmentOpens(s) ==
    SelectSeq(OutMarkers, LAMBDA m : mk[m].span = s /\ ~ mk[m].is_end)

\* cont_left on every fragment but the first, cont_right on every fragment
\* but the last
FlagsFaithful(s) ==
    LET f == FragmentOpens(s)
    IN  \A j \in 1..Len(f) :
            /\ mk[f[j]].cont_left <=> j > 1
            /\ mk[f[j]].cont_right <=> j < Len(f)

(* C14: at each offset of the sweep exactly the open spans whose height is  *)
(* strictly below max_change_height and whose true end is elsewhere are     *)
(* closed and re-opened, and the continuation flags tell the split: of a    *)
(* span in two or more fragments the first has cont_right and not           *)
(* cont_left, every middle one has both, the last has cont_left and not     *)
(* cont_right; a span in one fragment has neither.                          *)
C14_SplitAndFlags ==
    pc \in { "sweep", "done" } =>
        /\ \A off \in ProcessedOffsets : SplitExactly(off)
        /\ \A m \in Synthetic : mk[m].offset \in ProcessedOffsets
        /\ \A s \in 1..Len(spans) : FlagsFaithful(s)

\* a call returned with one span in three fragments and another in one
C14_Reached ==
    /\ pc = "done"
    /\ \E s \in 1..Len(spans) : Len(FragmentOpens(s)) >= 3
    /\ \E s \in 1..Len(spans) : Len(FragmentOpens(s)) = 1

\* marker m has flag f after the step and did not have it, or did not
\* exist, before
NewlyCoveredRight(m) ==
    mk'[m].covered_right /\ (m <= Len(mk) => ~ mk[m].covered_right)

NewlyCoveredLeft(m) ==
    mk'[m].covered_left /\ (m <= Len(mk) => ~ mk[m].covered_left)

\* one pass of the sweep, at offset o', flags only adjoining sides
CoverAdjoiningSide ==
    pc = "sweep" =>
        \A m \in 1..Len(mk') :
            \* covered_right: on the open marker of a fragment that was open
            \* before this offset and ends here
            /\ NewlyCoveredRight(m) =>
                  /\ ~ mk'[m].is_end
                  /\ mk'[m].offset < o'
                  /\ m <= Len(mk) /\ start_marker[mk[m].span] = m
            \* covered_left: on the open marker of a fragment that begins here
            /\ NewlyCoveredLeft(m) =>
                  /\ ~ mk'[m].is_end
                  /\ mk'[m].offset = o'

(* C15: whenever the sweep at offset o sets covered_right because of a      *)
(* closing marker, the flag goes to the open marker of the fragment that    *)
(* ends at o, never to a fragment that begins at o, and covered_left goes   *)
(* only to open markers of fragments that begin at o; also when the closing *)
(* marker is the synthetic one of a span split at o.                        *)
C15_CoverAdjoiningSide == [][CoverAdjoiningSide]_vars

\* the literal text runs of the stream, one after the other
RECURSIVE TextOf(_)
TextOf(items) ==
    IF items = << >> THEN << >>
    ELSE (IF "text" \in DOMAIN Head(items) THEN Head(items).text ELSE << >>)
            \o TextOf(Tail(items))

\* the characters of the body outside its tags and its legend
BodyText ==
    LET chars == SelectSeq(body, LAMBDA x : "ch" \in DOMAIN x)
    IN  [ k \in 1..Len(chars) |-> chars[k].ch ]

\* every standoff lies within the text
WithinText ==
    \A k \in 1..Len(standoffs) :
        /\ 0 <= standoffs[k].start
        /\ standoffs[k].start <= standoffs[k].end
        /\ standoffs[k].end <= Len(text)

(* C16: for every text and every standoff list with                         *)
(* 0 <= start <= end <= len(text) on which rendering succeeds, the literal  *)
(* text runs of the stream, put together in order without the markers and   *)
(* the legend, are exactly the input text, every character once and in its  *)
(* place; during the sweep they are the text up to the offset reached.      *)
C16_TextPreserved ==
    /\ (pc = "done" /\ WithinText) =>
          /\ TextOf(out) = text
          /\ BodyText = text
    /\ (pc = "sweep" /\ WithinText) => TextOf(out) = Slice(text, 0, o)

\* a call returned whose text has characters before the first marker,
\* between markers of different offsets and after the last marker
C16_Reached ==
    /\ pc = "done" /\ WithinText
    /\ \E k \in 1..Len(standoffs) :
          /\ 0 < standoffs[k].start
          /\ standoffs[k].start < standoffs[k].end
          /\ standoffs[k].end < Len(text)
    /\ Len(OutMarkers) >= 4

\* what the pass of the sweep that is due writes for its markers, closing
\* tags then opening tags, when open_span is enumerated in the order given
EmittedTags(order) ==
    LET off      == mk[markers[i]].offset
        group    == SubSeq(markers, i, group_last)
        mk1      == split_markers(order, off)
        to_open  == to_open_of(group, order)
        to_close == to_close_of(group, order)
        mk2      == cover_markers(mk1, split_start_markers(order), to_open, to_close,
                                  Range(order))
        ms       == sorted_markers(mk2, to_close) \o sorted_markers(mk2, to_open)
    IN  [ k \in 1..Len(ms) |-> marker_unicode(mk2[ms[k]], spans, nested) ]

\* the spans the pass that is due closes and re-opens
DueSplit ==
    must_split(mk[markers[i]].offset,
               max_change_height_of(SubSeq(markers, i, group_last)))

(* C17: the emitted markers do not depend on the order in which the set of  *)
(* open spans is enumerated during the crossing fix-up: in every pass of    *)
(* the sweep any two orders give the same tags, so that two runs on the     *)
(* same (text, standoffs, legend) return the same body; also when several   *)
(* open spans, such as nested formatting spans, have the same sort key.     *)
C17_OrderIndependent ==
    (pc = "sweep" /\ i <= Len(markers)) =>
        \A p \in Orderings(DueSplit) : \A q \in Orderings(DueSplit) :
            EmittedTags(p) = EmittedTags(q)

=============================================================================
